---- MODULE Spec2Model ----
(***************************************************************************)
(* Camera choreography of stercorari/g8.                                   *)
(*                                                                         *)
(*   CinematicCameraOrchestrator (src/src/cinematicCamera.ts): a looping   *)
(*   gsap timeline of eight shots, each a jump cut followed by a position  *)
(*   tween and a look-target tween, with play/pause/stop/restart and an    *)
(*   interaction listener that pauses it.                                  *)
(*                                                                         *)
(*   DollyCamera (src/src/dollyCamera.ts): a looping orbit tween, with an  *)
(*   optional 8 second transition from an initial pose, and                *)
(*   start/pause/resume/stop/reset.                                        *)
(*                                                                         *)
(* Time is counted in whole seconds.  Coordinates are integers: one unit   *)
(* is a thousandth of the length unit, so that every coefficient of        *)
(* generateShots (0.12, 1.5 * 0.35, ...) times maxDim is a whole number.   *)
(* Angles are counted in 120ths of a revolution (15 = PI / 4).             *)
(***************************************************************************)
EXTENDS Integers, Sequences, FiniteSets, TLC

(* ------------------------------ bounds -------------------------------- *)

\* timeline objects that can be alive at once (gsap.timeline() allocations)
MaxTimelines == 2

\* the longest step of the frame clock, in seconds
MaxFrameStep == 2

(* --------------------------- program inputs --------------------------- *)

\* Math.max(size.x, size.y, size.z) of the models tried
ModelMaxDims == {0, 2}

\* modelCenter of the models tried, in thousandths
ModelCenter == <<1000, 2000, -1000>>

\* "no timeline": this.timeline === null
NoTimeline == 0

TimelineIds == 1..MaxTimelines

\* the three window listeners registered with { once: true }
WindowEvents == {"wheel", "mousedown", "touchstart"}

\* every interaction event pauseCinematic is registered for
InteractionEvents == WindowEvents \cup {"start"}

VARIABLES
    variant,          \* which main module runs: "cinematic" or "dolly"
    events,           \* interaction events dispatched so far, modulo 2
    c_isPlaying,      \* CinematicCameraOrchestrator.isPlaying
    c_userInteracted, \* CinematicCameraOrchestrator.userInteracted
    c_timeline,       \* CinematicCameraOrchestrator.timeline (NoTimeline = null)
    c_live,           \* timelines created and not killed
    c_paused,         \* live timelines that are paused
    c_time,           \* playhead of this.timeline within its iteration
    c_from,           \* start values each tween of this.timeline captured
    c_enabled,        \* controls.enabled
    c_listeners,      \* window listeners still registered
    c_timer,          \* the autoStart setTimeout is pending
    c_maxDim,         \* maxDim of the model
    c_camPos,         \* camera.position
    c_camTarget,      \* controls.target
    c_lastCall,       \* the last method of the orchestrator that returned
    d_isActive,       \* DollyCamera.isActive
    d_timeline,       \* DollyCamera.animationTimeline
    d_live,           \* timelines created and not killed
    d_paused,         \* live timelines that are paused
    d_time,           \* playhead of animationTimeline
    d_enabled,        \* controls.enabled
    d_hasInitial,     \* initialPosition and initialTarget were supplied
    d_timer,          \* the autoStart setTimeout is pending
    d_orbit,          \* positionObj of createOrbitPath: angle and time
    d_from,           \* start values the transition tweens captured
    d_camPos,         \* camera.position
    d_camTarget,      \* controls.target
    d_lastCall,       \* the last method of the dolly camera that returned
    m_extras,         \* the small meshes of the loaded scene (template numbers)
    m_reversed,       \* the scene lists its small meshes in reverse order
    m_scale,          \* the uniform scale of the loaded scene
    m_config,         \* the GlitchDetectionConfig passed to detectAndFixGlitches
    m_stage,          \* how far the load callback has come
    m_attached,       \* meshes of the scene that have a parent
    m_shadows,        \* meshes with castShadow and receiveShadow set
    m_removed,        \* meshesToRemove of the last cleanupMeshes
    m_verySmall,      \* verySmallMeshes of the last detectAndFixGlitches
    m_pattern,        \* linePatternMeshes of the last detectAndFixGlitches
    m_distant         \* distantMeshes of the last detectAndFixGlitches

cvars == <<c_isPlaying, c_userInteracted, c_timeline, c_live, c_paused, c_time,
           c_from, c_enabled, c_listeners, c_timer, c_maxDim, c_camPos,
           c_camTarget, c_lastCall>>

dvars == <<d_isActive, d_timeline, d_live, d_paused, d_time, d_enabled,
           d_hasInitial, d_timer, d_orbit, d_from, d_camPos, d_camTarget,
           d_lastCall>>

mvars == <<m_extras, m_reversed, m_scale, m_config, m_stage, m_attached,
           m_shadows, m_removed, m_verySmall, m_pattern, m_distant>>

vars == <<variant, events, cvars, dvars, mvars>>

(* ----------------------------- vectors -------------------------------- *)

Vec(x, y, z) == <<x, y, z>>

\* center + maxDim * coefficient, the coefficient in thousandths
FromCenter(maxDim, cx, cy, cz) ==
    Vec(ModelCenter[1] + maxDim * cx,
        ModelCenter[2] + maxDim * cy,
        ModelCenter[3] + maxDim * cz)

(* --------------------------- generateShots ---------------------------- *)

Shot(sp, ep, st, et, d, e) ==
    [startPosition |-> sp, endPosition |-> ep,
     startTarget |-> st, endTarget |-> et, duration |-> d, ease |-> e]

generateShots(maxDim) ==
    << Shot(FromCenter(maxDim, 0, 300, 1600), FromCenter(maxDim, 0, 250, 900),
            FromCenter(maxDim, 0, 200, 0), FromCenter(maxDim, 0, 150, 0),
            5, "power1.inOut"),
       Shot(FromCenter(maxDim, -1350, 250, 450), FromCenter(maxDim, -900, 200, 300),
            FromCenter(maxDim, 0, 150, 0), FromCenter(maxDim, 0, 100, 0),
            5, "sine.inOut"),
       Shot(FromCenter(maxDim, 0, -100, 1050), FromCenter(maxDim, 0, 100, 750),
            FromCenter(maxDim, 0, 250, 0), FromCenter(maxDim, 0, 300, 0),
            5, "power2.out"),
       Shot(FromCenter(maxDim, 1200, 200, 600), FromCenter(maxDim, 750, 180, 450),
            FromCenter(maxDim, 0, 150, 0), FromCenter(maxDim, 0, 120, 0),
            5, "power1.inOut"),
       Shot(FromCenter(maxDim, -750, 220, 1050), FromCenter(maxDim, -450, 200, 750),
            FromCenter(maxDim, 100, 150, 0), FromCenter(maxDim, 0, 120, 0),
            5, "power2.inOut"),
       Shot(FromCenter(maxDim, 450, 180, 750), FromCenter(maxDim, 300, 150, 525),
            FromCenter(maxDim, 0, 120, 0), FromCenter(maxDim, 0, 100, 0),
            4, "power2.inOut"),
       Shot(FromCenter(maxDim, 0, 200, 750), FromCenter(maxDim, 0, 250, 1400),
            FromCenter(maxDim, 0, 150, 0), FromCenter(maxDim, 0, 180, 0),
            5, "power1.inOut"),
       Shot(FromCenter(maxDim, 0, 240, 1200), FromCenter(maxDim, 0, 200, 600),
            FromCenter(maxDim, 0, 150, 0), FromCenter(maxDim, 0, 120, 0),
            6, "sine.inOut") >>

NumShots == Len(generateShots(0))

(* ------------------------------- eases -------------------------------- *)

\* sine.inOut at j/30 of the way, in thousandths: -(cos(PI * p) - 1) / 2
SineInOutTable ==
    << 0, 3, 11, 24, 43, 67, 95, 128, 165, 206, 250, 297, 345, 396, 448, 500,
       552, 604, 655, 703, 750, 794, 835, 872, 905, 933, 957, 976, 989, 997, 1000 >>

\* the eased progress, in thousandths, of a tween of duration d after k seconds
Ease(name, k, d) ==
    CASE k <= 0 -> 0
      [] k >= d -> 1000
      [] name = "power1.inOut" ->
            IF 2 * k < d THEN (2000 * k * k) \div (d * d)
            ELSE 1000 - (2000 * (d - k) * (d - k)) \div (d * d)
      [] name = "power2.inOut" ->
            IF 2 * k < d THEN (4000 * k * k * k) \div (d * d * d)
            ELSE 1000 - (4000 * (d - k) * (d - k) * (d - k)) \div (d * d * d)
      [] name = "power2.out" ->
            1000 - (1000 * (d - k) * (d - k) * (d - k)) \div (d * d * d)
      [] OTHER -> SineInOutTable[((30 * k) \div d) + 1]

Lerp(from, to, e) == from + ((to - from) * e) \div 1000

LerpVec(from, to, e) ==
    Vec(Lerp(from[1], to[1], e), Lerp(from[2], to[2], e), Lerp(from[3], to[3], e))

(* ------------------- the timeline play() builds ----------------------- *)

Child(kind, shot, start, dur) ==
    [kind |-> kind, shot |-> shot, start |-> start, dur |-> dur]

\* the four children the forEach body adds for shot i at totalTime
ShotChildren(shots, i, totalTime) ==
    << Child("jump", i, totalTime, 0),
       Child("pos", i, totalTime, shots[i].duration),
       Child("target", i, totalTime, shots[i].duration),
       Child("update", i, totalTime + shots[i].duration, 0) >>

\* the forEach of play() with totalTime advanced by one second too little
RECURSIVE BuildFrom_Overlapping(_, _, _)
BuildFrom_Overlapping(shots, i, totalTime) ==
    IF i > Len(shots) THEN << >>
    ELSE ShotChildren(shots, i, totalTime)
         \o BuildFrom_Overlapping(shots, i + 1,
                                  totalTime + shots[i].duration - 1)

RECURSIVE BuildFrom(_, _, _)
BuildFrom(shots, i, totalTime) ==
    IF i > Len(shots) THEN << >>
    ELSE ShotChildren(shots, i, totalTime)
         \o BuildFrom(shots, i + 1, totalTime + shots[i].duration)

\* the children in the order play() adds them
BuildTimeline(shots) == BuildFrom(shots, 1, 0)

\* gsap keeps a timeline's children in order of start time, children of
\* equal start time in the order they were added
RECURSIVE InsertChild(_, _)
InsertChild(sorted, c) ==
    IF sorted = << >> THEN << c >>
    ELSE IF sorted[Len(sorted)].start <= c.start THEN Append(sorted, c)
    ELSE Append(InsertChild(SubSeq(sorted, 1, Len(sorted) - 1), c),
                sorted[Len(sorted)])

RECURSIVE SortChildren(_, _)
SortChildren(children, i) ==
    IF i = 0 THEN << >>
    ELSE InsertChild(SortChildren(children, i - 1), children[i])

RECURSIVE MaxEnd(_, _)
MaxEnd(children, i) ==
    IF i = 0 THEN 0
    ELSE LET e == children[i].start + children[i].dur
             m == MaxEnd(children, i - 1)
         IN  IF e > m THEN e ELSE m

\* shots, ordered children and duration of the timeline, per model size
TimelineOf ==
    [m \in ModelMaxDims |->
        LET shots == generateShots(m)
            built == BuildTimeline(shots)
        IN  [shots |-> shots,
             children |-> SortChildren(built, Len(built)),
             duration |-> MaxEnd(built, Len(built))]]

\* timeline.duration(): the same for every model size
TotalDuration == TimelineOf[0].duration

(* --------------------- rendering a timeline --------------------------- *)

\* a start value not captured yet
NotCaptured == << >>

NoFrom == [k \in {"pos", "target"} |-> [i \in 1..NumShots |-> NotCaptured]]

\* a callback at time `start` fires when the playhead moves from a to b
Fires(start, a, b) == (a < start /\ start <= b) \/ (start = 0 /\ a = 0)

\* a tween writes when the playhead moves from a to b
Writes(c, a, b) == c.start <= b /\ a < c.start + c.dur

\* one child rendered for the playhead moving from a to b;
\* acc = [pos, target, from]
RenderChild(c, shots, a, b, acc) ==
    LET shot == shots[c.shot] IN
    CASE c.kind = "jump" ->
            IF Fires(c.start, a, b)
            THEN [acc EXCEPT !.pos = shot.startPosition,
                             !.target = shot.startTarget]
            ELSE acc
      [] c.kind = "pos" ->
            IF Writes(c, a, b)
            THEN LET from == IF acc.from["pos"][c.shot] = NotCaptured
                             THEN acc.pos ELSE acc.from["pos"][c.shot]
                 IN  [acc EXCEPT
                        !.from["pos"][c.shot] = from,
                        !.pos = LerpVec(from, shot.endPosition,
                                        Ease(shot.ease, b - c.start, c.dur))]
            ELSE acc
      [] c.kind = "target" ->
            IF Writes(c, a, b)
            THEN LET from == IF acc.from["target"][c.shot] = NotCaptured
                             THEN acc.target ELSE acc.from["target"][c.shot]
                 IN  [acc EXCEPT
                        !.from["target"][c.shot] = from,
                        !.target = LerpVec(from, shot.endTarget,
                                           Ease(shot.ease, b - c.start, c.dur))]
            ELSE acc
      [] OTHER -> acc   \* "update": controls.update() moves nothing by itself

RECURSIVE RenderFrom(_, _, _, _, _, _)
RenderFrom(children, i, shots, a, b, acc) ==
    IF i > Len(children) THEN acc
    ELSE RenderFrom(children, i + 1, shots, a, b,
                    RenderChild(children[i], shots, a, b, acc))

\* the timeline of model size m rendered for the playhead moving from a to b:
\* the children that fire or write on the way are rendered in their order
Render(m, a, b, acc) ==
    LET Acts(c) == IF c.kind = "jump" THEN Fires(c.start, a, b)
                   ELSE c.kind \in {"pos", "target"} /\ Writes(c, a, b)
    IN  RenderFrom(SelectSeq(TimelineOf[m].children, Acts), 1,
                   TimelineOf[m].shots, a, b, acc)

\* one tick on a timeline whose playhead wraps without a new pass being
\* rendered from its start
Advance_NoPass(m, a, dt, acc) ==
    IF a + dt <= TotalDuration
    THEN [time |-> a + dt, acc |-> Render(m, a, a + dt, acc)]
    ELSE [time |-> a + dt - TotalDuration,
          acc |-> Render(m, a, TotalDuration, acc)]

\* one tick of the gsap ticker, dt seconds long, on a repeat: -1 timeline
Advance(m, a, dt, acc) ==
    IF a + dt <= TotalDuration
    THEN [time |-> a + dt, acc |-> Render(m, a, a + dt, acc)]
    ELSE [time |-> a + dt - TotalDuration,
          acc |-> Render(m, 0, a + dt - TotalDuration,
                         Render(m, a, TotalDuration, acc))]

(* ---------------- CinematicCameraOrchestrator methods ------------------ *)

\* the orchestrator, its timelines, the controls and the camera as a record
CineState ==
    [isPlaying |-> c_isPlaying, userInteracted |-> c_userInteracted,
     timeline |-> c_timeline, live |-> c_live, paused |-> c_paused,
     time |-> c_time, from |-> c_from, enabled |-> c_enabled,
     camPos |-> c_camPos, camTarget |-> c_camTarget]

cfields == <<c_isPlaying, c_userInteracted, c_timeline, c_live, c_paused, c_time,
             c_from, c_enabled, c_camPos, c_camTarget>>

CineSet(s) ==
    /\ c_isPlaying' = s.isPlaying
    /\ c_userInteracted' = s.userInteracted
    /\ c_timeline' = s.timeline
    /\ c_live' = s.live
    /\ c_paused' = s.paused
    /\ c_time' = s.time
    /\ c_from' = s.from
    /\ c_enabled' = s.enabled
    /\ c_camPos' = s.camPos
    /\ c_camTarget' = s.camTarget

\* gsap.timeline(): a timeline object not alive so far
NewTimeline(live) == CHOOSE id \in TimelineIds \ live :
                        \A other \in TimelineIds \ live : id <= other

\* play() without its guard
PlayReturnsEarly_Never(s) == FALSE

\* play() returns at once when the sequence is playing
PlayReturnsEarly(s) == s.isPlaying

play(s) ==
    IF PlayReturnsEarly(s) THEN s
    ELSE LET id == NewTimeline(s.live) IN
         [s EXCEPT !.isPlaying = TRUE,
                   !.enabled = FALSE,
                   !.timeline = id,
                   !.live = s.live \cup {id},
                   !.time = 0,
                   !.from = NoFrom]

\* pause() that sets the flags and leaves the timeline running
pause_FlagsOnly(s) ==
    IF s.timeline # NoTimeline
    THEN [s EXCEPT !.isPlaying = FALSE,
                   !.enabled = TRUE]
    ELSE s

pause(s) ==
    IF s.timeline # NoTimeline
    THEN [s EXCEPT !.paused = s.paused \cup {s.timeline},
                   !.isPlaying = FALSE,
                   !.enabled = TRUE]
    ELSE s

stop(s) ==
    IF s.timeline # NoTimeline
    THEN [s EXCEPT !.live = s.live \ {s.timeline},
                   !.paused = s.paused \ {s.timeline},
                   !.timeline = NoTimeline,
                   !.isPlaying = FALSE,
                   !.enabled = TRUE]
    ELSE s

restart(s) == play([stop(s) EXCEPT !.userInteracted = FALSE])

\* ShouldPause without the sticky flag
ShouldPause_Unsticky(s) == s.isPlaying

\* the condition under which the listener pauses the sequence
ShouldPause(s) == s.isPlaying /\ ~s.userInteracted

\* the listener setupInteractionListener registers
pauseCinematic(s) ==
    IF ShouldPause(s)
    THEN [pause(s) EXCEPT !.userInteracted = TRUE]
    ELSE s

\* gsap renders a timeline that is alive and not paused
Running(tl, live, paused) == tl \in live /\ tl \notin paused

(* ---------------------- cinematic: the actions ------------------------ *)

CineOther == <<c_listeners, c_timer, c_maxDim>>

\* play() can allocate its timeline within the bound
CanPlay(s) == s.isPlaying \/ s.live # TimelineIds

CinePlay ==
    /\ variant = "cinematic"
    /\ CanPlay(CineState)
    /\ CineSet(play(CineState))
    /\ c_lastCall' = "play"
    /\ UNCHANGED <<variant, events, CineOther, dvars, mvars>>

CinePause ==
    /\ variant = "cinematic"
    /\ CineSet(pause(CineState))
    /\ c_lastCall' = "pause"
    /\ UNCHANGED <<variant, events, CineOther, dvars, mvars>>

CineStop ==
    /\ variant = "cinematic"
    /\ CineSet(stop(CineState))
    /\ c_lastCall' = "stop"
    /\ UNCHANGED <<variant, events, CineOther, dvars, mvars>>

CineRestart ==
    /\ variant = "cinematic"
    /\ CanPlay(stop(CineState))
    /\ CineSet(restart(CineState))
    /\ c_lastCall' = "restart"
    /\ UNCHANGED <<variant, events, CineOther, dvars, mvars>>

\* the setTimeout of setupCinematicCamera(autoStart = true) fires
CineAutoStart ==
    /\ variant = "cinematic"
    /\ c_timer
    /\ CanPlay(CineState)
    /\ CineSet(play(CineState))
    /\ c_lastCall' = "play"
    /\ c_timer' = FALSE
    /\ UNCHANGED <<variant, events, c_listeners, c_maxDim, dvars, mvars>>

\* the listener runs: it has called pause() exactly when it found ShouldPause
CineListener ==
    /\ CineSet(pauseCinematic(CineState))
    /\ c_lastCall' = IF ShouldPause(CineState) THEN "pause" ELSE c_lastCall

\* the browser dispatches wheel, mousedown or touchstart on window; a
\* { once: true } listener is removed when it is invoked
CineWindowEvent(e) ==
    /\ variant = "cinematic"
    /\ IF e \in c_listeners
       THEN /\ CineListener
            /\ c_listeners' = c_listeners \ {e}
       ELSE UNCHANGED <<cfields, c_lastCall, c_listeners>>
    /\ events' = (events + 1) % 2
    /\ UNCHANGED <<variant, c_timer, c_maxDim, dvars, mvars>>

\* the controls dispatch 'start'; that listener stays registered
CineControlsStart ==
    /\ variant = "cinematic"
    /\ CineListener
    /\ events' = (events + 1) % 2
    /\ UNCHANGED <<variant, CineOther, dvars, mvars>>

\* one tick of the gsap ticker: the running timeline renders
CineFrame(dt) ==
    /\ variant = "cinematic"
    /\ Running(c_timeline, c_live, c_paused)
    /\ LET r == Advance(c_maxDim, c_time, dt,
                        [pos |-> c_camPos, target |-> c_camTarget,
                         from |-> c_from])
       IN  /\ c_time' = r.time
           /\ c_camPos' = r.acc.pos
           /\ c_camTarget' = r.acc.target
           /\ c_from' = r.acc.from
    /\ UNCHANGED <<variant, events, c_isPlaying, c_userInteracted, c_timeline,
                   c_live, c_paused, c_enabled, c_lastCall, CineOther, dvars,
                   mvars>>

CineNext ==
    \/ CinePlay
    \/ CinePause
    \/ CineStop
    \/ CineRestart
    \/ CineAutoStart
    \/ \E e \in WindowEvents : CineWindowEvent(e)
    \/ CineControlsStart
    \/ \E dt \in 1..MaxFrameStep : CineFrame(dt)

\* the pose the main module sets before setupCinematicCamera
CineInitialPos == Vec(-103394, 32723, 50231)

CineInitialTarget == Vec(-12164, 17130, 1387)

CineInit ==
    /\ c_isPlaying = FALSE
    /\ c_userInteracted = FALSE
    /\ c_timeline = NoTimeline
    /\ c_live = {}
    /\ c_paused = {}
    /\ c_time = 0
    /\ c_from = NoFrom
    /\ c_enabled = TRUE
    /\ c_listeners = WindowEvents
    /\ c_camPos = CineInitialPos
    /\ c_camTarget = CineInitialTarget
    /\ c_lastCall = "none"

(* ------------------------ DollyCamera methods ------------------------- *)

\* duration of the transition tweens of start()
TransitionDuration == 8

\* duration of one revolution of the orbit tween of createOrbitPath
OrbitDuration == 60

\* Math.PI * 2 and Math.PI * 0.25, in 120ths of a revolution
FullTurn == 120

InitialAngle == 15

\* how deep a transition may start from a pose of an earlier transition
MaxTransitionDepth == 1

\* the pose the main module sets before setupDollyCamera
InitialPose == [k |-> "initial"]

\* setCameraPosition(angle, 0, 0): on the circle of radius orbitRadius
CirclePos(angle) == [k |-> "circle", angle |-> angle]

\* the target { modelCenter.x, modelCenter.y * 0.4, modelCenter.z } of start()
AnimalTarget == [k |-> "animalTarget"]

\* setCameraPosition(angle, radiusVariation, heightVariation + bobOffset)
\* with the variations onUpdate computes from angle and time
OrbitPos(angle, time) == [k |-> "orbit", angle |-> angle, time |-> time]

\* setCameraLookTarget(angle, time)
LookTarget(angle, time) == [k |-> "look", angle |-> angle, time |-> time]

\* a tween from `from` to `to` at eased progress e (thousandths)
TweenPose(from, to, e) ==
    IF e = 0 THEN from
    ELSE IF e = 1000 THEN to
    ELSE [k |-> "tween", from |-> from, to |-> to, e |-> e]

RECURSIVE PoseDepth(_)
PoseDepth(p) == IF p.k = "tween" THEN 1 + PoseDepth(p.from) ELSE 0

DollyState ==
    [isActive |-> d_isActive, timeline |-> d_timeline, live |-> d_live,
     paused |-> d_paused, time |-> d_time, enabled |-> d_enabled,
     orbit |-> d_orbit, from |-> d_from,
     camPos |-> d_camPos, camTarget |-> d_camTarget]

dfields == <<d_isActive, d_timeline, d_live, d_paused, d_time, d_enabled,
             d_orbit, d_from, d_camPos, d_camTarget>>

DollySet(s) ==
    /\ d_isActive' = s.isActive
    /\ d_timeline' = s.timeline
    /\ d_live' = s.live
    /\ d_paused' = s.paused
    /\ d_time' = s.time
    /\ d_enabled' = s.enabled
    /\ d_orbit' = s.orbit
    /\ d_from' = s.from
    /\ d_camPos' = s.camPos
    /\ d_camTarget' = s.camTarget

\* const positionObj = { angle: 0, time: 0 }
NewPositionObj == [angle |-> 0, time |-> 0]

DollyNoFrom == [pos |-> NotCaptured, target |-> NotCaptured]

\* start() returns at once when the camera is active
StartReturnsEarly(s) == s.isActive

start(s, hasInitial) ==
    IF StartReturnsEarly(s) THEN s
    ELSE LET id == NewTimeline(s.live)
             t == [s EXCEPT !.isActive = TRUE,
                            !.enabled = FALSE,
                            !.timeline = id,
                            !.live = s.live \cup {id},
                            !.time = 0,
                            !.from = DollyNoFrom,
                            !.orbit = NewPositionObj]
         IN  IF hasInitial THEN t
             ELSE [t EXCEPT !.camPos = CirclePos(InitialAngle),
                            !.camTarget = LookTarget(InitialAngle, 0)]

\* pause() and resume() return at once unless active with a timeline
NothingToPause(s) == ~s.isActive \/ s.timeline = NoTimeline

\* pause() that leaves the manual controls disabled
dpause_KeepsDisabled(s) ==
    IF NothingToPause(s) THEN s
    ELSE [s EXCEPT !.paused = s.paused \cup {s.timeline}]

dpause(s) ==
    IF NothingToPause(s) THEN s
    ELSE [s EXCEPT !.paused = s.paused \cup {s.timeline},
                   !.enabled = TRUE]

\* resume() that rewinds the timeline
resume_Rewinds(s) ==
    IF NothingToPause(s) THEN s
    ELSE [s EXCEPT !.paused = s.paused \ {s.timeline},
                   !.enabled = FALSE,
                   !.time = 0]

resume(s) ==
    IF NothingToPause(s) THEN s
    ELSE [s EXCEPT !.paused = s.paused \ {s.timeline},
                   !.enabled = FALSE]

dstop(s) ==
    IF ~s.isActive THEN s
    ELSE [s EXCEPT !.isActive = FALSE,
                   !.live = s.live \ {s.timeline},
                   !.paused = s.paused \ {s.timeline},
                   !.timeline = NoTimeline,
                   !.enabled = TRUE]

reset(s, hasInitial) == start(dstop(s), hasInitial)

isPlaying(s) ==
    s.isActive /\ s.timeline # NoTimeline /\ s.timeline \notin s.paused

\* const startTime = this.animationTimeline.duration() in createOrbitPath
OrbitStart(hasInitial) == IF hasInitial THEN TransitionDuration ELSE 0

\* the orbit tween repeats: a playhead past a whole revolution is counted
\* from the start of that revolution
WrapOrbit(b, startTime) ==
    IF b - startTime > OrbitDuration THEN b - OrbitDuration ELSE b

\* the timeline of start() rendered for its playhead moving from a to b
DollyRender(s, hasInitial, b) ==
    LET a == s.time
        startTime == OrbitStart(hasInitial)
        e == Ease("power2.inOut", b, TransitionDuration)
        fromPos == IF s.from.pos = NotCaptured THEN s.camPos ELSE s.from.pos
        fromTarget == IF s.from.target = NotCaptured THEN s.camTarget
                      ELSE s.from.target
        \* the two transition tweens
        t1 == IF hasInitial /\ a < TransitionDuration
              THEN [s EXCEPT !.from = [pos |-> fromPos, target |-> fromTarget],
                             !.camPos = TweenPose(fromPos,
                                                  CirclePos(InitialAngle), e),
                             !.camTarget = TweenPose(fromTarget, AnimalTarget, e)]
              ELSE s
        \* the orbit tween and its onUpdate
        local == WrapOrbit(b, startTime) - startTime
        obj == [angle |-> (local * FullTurn) \div OrbitDuration, time |-> local]
        t2 == IF b >= startTime
              THEN [t1 EXCEPT !.orbit = obj,
                              !.camPos = OrbitPos(obj.angle, obj.time),
                              !.camTarget = LookTarget(obj.angle, obj.time)]
              ELSE t1
    IN  [t2 EXCEPT !.time = WrapOrbit(b, startTime)]

(* ------------------------- dolly: the actions ------------------------- *)

DollyOther == <<d_hasInitial, d_timer>>

\* start() can allocate its timeline and its transition within the bounds
CanStart(s) ==
    \/ s.isActive
    \/ /\ s.live # TimelineIds
       /\ PoseDepth(s.camPos) < MaxTransitionDepth

DollyStart ==
    /\ variant = "dolly"
    /\ CanStart(DollyState)
    /\ DollySet(start(DollyState, d_hasInitial))
    /\ d_lastCall' = "start"
    /\ UNCHANGED <<variant, events, DollyOther, cvars, mvars>>

DollyPause ==
    /\ variant = "dolly"
    /\ DollySet(dpause(DollyState))
    /\ d_lastCall' = "pause"
    /\ UNCHANGED <<variant, events, DollyOther, cvars, mvars>>

DollyResume ==
    /\ variant = "dolly"
    /\ DollySet(resume(DollyState))
    /\ d_lastCall' = "resume"
    /\ UNCHANGED <<variant, events, DollyOther, cvars, mvars>>

DollyStop ==
    /\ variant = "dolly"
    /\ DollySet(dstop(DollyState))
    /\ d_lastCall' = "stop"
    /\ UNCHANGED <<variant, events, DollyOther, cvars, mvars>>

DollyReset ==
    /\ variant = "dolly"
    /\ CanStart(dstop(DollyState))
    /\ DollySet(reset(DollyState, d_hasInitial))
    /\ d_lastCall' = "reset"
    /\ UNCHANGED <<variant, events, DollyOther, cvars, mvars>>

\* togglePlayPause of setupCameraControls (button click or space bar)
DollyToggle ==
    /\ variant = "dolly"
    /\ IF isPlaying(DollyState)
       THEN /\ DollySet(dpause(DollyState))
            /\ d_lastCall' = "pause"
       ELSE /\ DollySet(resume(DollyState))
            /\ d_lastCall' = "resume"
    /\ UNCHANGED <<variant, events, DollyOther, cvars, mvars>>

\* the setTimeout of setupDollyCamera(autoStart = true) fires
DollyAutoStart ==
    /\ variant = "dolly"
    /\ d_timer
    /\ CanStart(DollyState)
    /\ DollySet(start(DollyState, d_hasInitial))
    /\ d_lastCall' = "start"
    /\ d_timer' = FALSE
    /\ UNCHANGED <<variant, events, d_hasInitial, cvars, mvars>>

\* the user presses a pointer, turns the wheel or touches the screen: the
\* dolly camera and its main module register no listener for any of these
DollyInteraction(e) ==
    /\ variant = "dolly"
    /\ events' = (events + 1) % 2
    /\ UNCHANGED <<variant, dvars, cvars, mvars>>

\* one tick of the gsap ticker: the running timeline renders
DollyFrame(dt) ==
    /\ variant = "dolly"
    /\ Running(d_timeline, d_live, d_paused)
    /\ DollySet(DollyRender(DollyState, d_hasInitial, d_time + dt))
    /\ UNCHANGED <<variant, events, d_lastCall, DollyOther, cvars, mvars>>

DollyNext ==
    \/ DollyStart
    \/ DollyPause
    \/ DollyResume
    \/ DollyStop
    \/ DollyReset
    \/ DollyToggle
    \/ DollyAutoStart
    \/ \E e \in InteractionEvents : DollyInteraction(e)
    \/ \E dt \in 1..MaxFrameStep : DollyFrame(dt)

DollyInit ==
    /\ d_isActive = FALSE
    /\ d_timeline = NoTimeline
    /\ d_live = {}
    /\ d_paused = {}
    /\ d_time = 0
    /\ d_enabled = TRUE
    /\ d_orbit = NewPositionObj
    /\ d_from = DollyNoFrom
    /\ d_camPos = InitialPose
    /\ d_camTarget = InitialPose
    /\ d_lastCall = "none"

(* -------------------------- the specification ------------------------- *)

(* ---------------------- mesh sanitizer: the scene ---------------------- *)

\* Lengths are in units of 0.025. A mesh is a direct child of the model; its
\* bounding box is center -/+ half. position and index are the counts of its
\* geometry's position attribute and index, NoAttribute when it has none.
\* The centers of the scenes tried lie on the x axis, which keeps every
\* distance the sanitizer takes an integer.
NoAttribute == -1

Mesh(x, half, position, index) ==
    [center |-> Vec(x, 0, 0), half |-> half, position |-> position,
     index |-> index]

\* the five large meshes every scene has
BodyMeshes ==
    <<Mesh(-200, Vec(500, 50, 50), 300, NoAttribute),
      Mesh(-100, Vec(500, 50, 50), 300, NoAttribute),
      Mesh(0, Vec(500, 50, 50), 300, NoAttribute),
      Mesh(100, Vec(500, 50, 50), 300, NoAttribute),
      Mesh(200, Vec(500, 50, 50), 300, NoAttribute)>>

\* the small meshes a scene may have besides
Templates ==
    <<Mesh(0, Vec(1, 1, 1), 300, NoAttribute),
      Mesh(0, Vec(2, 1, 1), 300, NoAttribute),
      Mesh(0, Vec(2, 1, 1), 4, 6),
      Mesh(0, Vec(1, 1, 1), NoAttribute, NoAttribute),
      Mesh(170, Vec(2, 1, 1), 300, NoAttribute),
      Mesh(190, Vec(2, 1, 1), 300, NoAttribute),
      Mesh(260, Vec(2, 1, 1), 300, NoAttribute),
      Mesh(350, Vec(2, 1, 1), 300, NoAttribute),
      Mesh(420, Vec(2, 1, 1), 300, NoAttribute),
      Mesh(500, Vec(8, 2, 2), 300, NoAttribute),
      Mesh(0, Vec(8, 2, 2), 300, NoAttribute),
      Mesh(2000, Vec(50, 50, 50), 300, NoAttribute),
      Mesh(800, Vec(2, 1, 1), 300, NoAttribute)>>

\* how many small meshes a scene has at most
MaxExtras == 3

\* the uniform scales tried
Scales == {1, 2}

RECURSIVE Ascending(_)
Ascending(S) ==
    IF S = {} THEN << >>
    ELSE LET least == CHOOSE x \in S : \A y \in S : x <= y
         IN  <<least>> \o Ascending(S \ {least})

Reverse(seq) == [i \in 1..Len(seq) |-> seq[Len(seq) + 1 - i]]

ScaleMesh(mesh, k) ==
    [mesh EXCEPT !.center = Vec(k * mesh.center[1], k * mesh.center[2],
                                k * mesh.center[3]),
                 !.half = Vec(k * mesh.half[1], k * mesh.half[2],
                              k * mesh.half[3])]

\* the meshes of the scene in the order model.traverse visits them
Scene(extras, reversed, k) ==
    LET order == IF reversed THEN Reverse(Ascending(extras))
                 ELSE Ascending(extras)
        all == BodyMeshes \o [i \in 1..Len(order) |-> Templates[order[i]]]
    IN  [i \in 1..Len(all) |-> ScaleMesh(all[i], k)]

(* ----------------------- three.js: Box3, Vector3 ----------------------- *)

Add(u, v) == Vec(u[1] + v[1], u[2] + v[2], u[3] + v[3])

Sub(u, v) == Vec(u[1] - v[1], u[2] - v[2], u[3] - v[3])

Times(u, k) == Vec(u[1] * k, u[2] * k, u[3] * k)

Abs(x) == IF x < 0 THEN -x ELSE x

Max2(a, b) == IF a >= b THEN a ELSE b

Min2(a, b) == IF a <= b THEN a ELSE b

Max3(v) == Max2(v[1], Max2(v[2], v[3]))

\* Vector3.length of a vector along one axis
Length(v) ==
    CASE v[2] = 0 /\ v[3] = 0 -> Abs(v[1])
      [] v[1] = 0 /\ v[3] = 0 -> Abs(v[2])
      [] v[1] = 0 /\ v[2] = 0 -> Abs(v[3])

EmptyBox == [empty |-> TRUE]

\* Box3.setFromObject(mesh): a geometry without a position attribute has an
\* empty bounding box
MeshBox(mesh) ==
    IF mesh.position = NoAttribute THEN EmptyBox
    ELSE [empty |-> FALSE, min |-> Sub(mesh.center, mesh.half),
          max |-> Add(mesh.center, mesh.half)]

Union(a, b) ==
    IF a.empty THEN b
    ELSE IF b.empty THEN a
    ELSE [empty |-> FALSE,
          min |-> [i \in 1..3 |-> Min2(a.min[i], b.min[i])],
          max |-> [i \in 1..3 |-> Max2(a.max[i], b.max[i])]]

\* Box3.getSize: (0, 0, 0) for an empty box
getSize(box) == IF box.empty THEN Vec(0, 0, 0) ELSE Sub(box.max, box.min)

\* twice Box3.getCenter: (0, 0, 0) for an empty box
getCenter2(box) == IF box.empty THEN Vec(0, 0, 0) ELSE Add(box.min, box.max)

\* Box3.setFromObject(model): the union of the boxes of the attached meshes
RECURSIVE ModelBoxFrom(_, _, _)
ModelBoxFrom(scene, allMeshes, i) ==
    IF i > Len(allMeshes) THEN EmptyBox
    ELSE Union(MeshBox(scene[allMeshes[i]]), ModelBoxFrom(scene, allMeshes, i + 1))

\* model.traverse: the attached meshes in scene order
Traverse(scene, attached) ==
    LET IsAttached(i) == i \in attached
    IN  SelectSeq([i \in 1..Len(scene) |-> i], IsAttached)

Range(seq) == {seq[i] : i \in 1..Len(seq)}

(* --------------------- meshDebug.ts, meshCleanup.ts -------------------- *)

\* A threshold is the fraction <<numerator, denominator>>. The volume
\* thresholds are in cubic units: 0.0002 = 12.8 * 0.025^3.
DEFAULT_GLITCH_CONFIG ==
    [tinySizeThreshold |-> <<15, 10000>>,
     smallSizeThreshold |-> <<30, 10000>>,
     distantSizeThreshold |-> <<150, 10000>>,
     tinyVolumeThreshold |-> <<64, 5>>,
     smallVolumeThreshold |-> <<128, 1>>,
     farDistanceThreshold |-> <<25, 100>>,
     patternDistanceThreshold |-> <<12, 100>>,
     lowPolyVertexThreshold |-> 8,
     lowPolyTriangleThreshold |-> 4,
     minPatternSize |-> 3]

\* the configuration the load callback passes
LoadConfig ==
    [DEFAULT_GLITCH_CONFIG EXCEPT !.tinySizeThreshold = <<20, 10000>>,
                                  !.smallSizeThreshold = <<40, 10000>>,
                                  !.tinyVolumeThreshold = <<96, 5>>]

Configs == {DEFAULT_GLITCH_CONFIG, LoadConfig}

\* x < t
Below(x, t) == x * t[2] < t[1]

\* x / y < t in floating point, y >= 0: NaN and Infinity are below nothing
RatioBelow(x, y, t) == y > 0 /\ x * t[2] < t[1] * y

\* x > y * t, given twice x
Beyond(x2, y, t) == x2 * t[2] > 2 * y * t[1]

\* x < y * t, given twice x
Within(x2, y, t) == x2 * t[2] < 2 * y * t[1]

\* what the passes of detectAndFixGlitches compute of one mesh
Measure(mesh, mainMaxDim, mainCenter2) ==
    LET tempSize == getSize(MeshBox(mesh))
    IN  [maxSize |-> Max3(tempSize),
         volume |-> tempSize[1] * tempSize[2] * tempSize[3],
         vertexCount |-> IF mesh.position # NoAttribute THEN mesh.position
                         ELSE 0,
         \* three times triangleCount
         triangleCount3 |-> IF mesh.index # NoAttribute THEN mesh.index
                            ELSE IF mesh.position # NoAttribute
                                 THEN mesh.position
                                 ELSE 0,
         mainMaxDim |-> mainMaxDim,
         \* twice distanceFromMain
         distanceFromMain2 |->
            Length(Sub(getCenter2(MeshBox(mesh)), mainCenter2))]

\* a tiny rule that needs only one of its two conditions
isExtremelyTiny_Either(f, config) ==
    \/ RatioBelow(f.maxSize, f.mainMaxDim, config.tinySizeThreshold)
    \/ Below(f.volume, config.tinyVolumeThreshold)

isExtremelyTiny(f, config) ==
    /\ RatioBelow(f.maxSize, f.mainMaxDim, config.tinySizeThreshold)
    /\ Below(f.volume, config.tinyVolumeThreshold)

isFarAndTiny(f, config) ==
    /\ Beyond(f.distanceFromMain2, f.mainMaxDim, config.farDistanceThreshold)
    /\ RatioBelow(f.maxSize, f.mainMaxDim, config.smallSizeThreshold)
    /\ Below(f.volume, config.smallVolumeThreshold)

isExtremeLowPoly(f, config) ==
    /\ \/ f.vertexCount < config.lowPolyVertexThreshold
       \/ f.triangleCount3 < 3 * config.lowPolyTriangleThreshold
    /\ RatioBelow(f.maxSize, f.mainMaxDim, config.smallSizeThreshold)
    /\ Below(f.volume, config.smallVolumeThreshold)

\* a first pass that has the tiny rule only
IsVerySmall_TinyOnly(f, config) == isExtremelyTiny(f, config)

\* the test of the first pass
IsVerySmall(f, config) ==
    isExtremelyTiny(f, config) \/ isFarAndTiny(f, config)
       \/ isExtremeLowPoly(f, config)

\* the test that makes a mesh a candidate of the pattern pass
isTinyAndDistant(f, config) ==
    /\ \/ Below(f.volume, config.smallVolumeThreshold)
       \/ RatioBelow(f.maxSize, f.mainMaxDim, config.smallSizeThreshold)
    /\ Beyond(f.distanceFromMain2, f.mainMaxDim,
              config.patternDistanceThreshold)

\* the test of the last pass
IsDistant(f, config) ==
    /\ Beyond(f.distanceFromMain2, f.mainMaxDim, config.farDistanceThreshold)
    /\ RatioBelow(f.maxSize, f.mainMaxDim, config.distantSizeThreshold)

\* a nearness test with half the range
Nearby_HalfRange(scene, i, j, mainMaxDim, config) ==
    Within(2 * Length(Sub(getCenter2(MeshBox(scene[i])),
                          getCenter2(MeshBox(scene[j])))),
           mainMaxDim, config.patternDistanceThreshold)

\* center.distanceTo(otherCenter) < mainMaxDim * patternDistanceThreshold
Nearby(scene, i, j, mainMaxDim, config) ==
    Within(Length(Sub(getCenter2(MeshBox(scene[i])),
                      getCenter2(MeshBox(scene[j])))),
           mainMaxDim, config.patternDistanceThreshold)

\* the clusters grown from meshPositions[k] onwards: the meshes of those of
\* at least minPatternSize are appended to `line`, the linePatternMeshes
RECURSIVE GrowClusters(_, _, _, _, _, _, _)
GrowClusters(scene, meshPositions, k, processed, line, mainMaxDim, config) ==
    IF k > Len(meshPositions) THEN line
    ELSE IF meshPositions[k] \in processed
    THEN GrowClusters(scene, meshPositions, k + 1, processed, line,
                      mainMaxDim, config)
    ELSE LET mesh == meshPositions[k]
             Joins(other) ==
                /\ other \notin processed \cup {mesh}
                /\ Nearby(scene, mesh, other, mainMaxDim, config)
             cluster == <<mesh>> \o SelectSeq(meshPositions, Joins)
         IN  GrowClusters(scene, meshPositions, k + 1,
                          processed \cup Range(cluster),
                          IF Len(cluster) >= config.minPatternSize
                          THEN line \o cluster
                          ELSE line,
                          mainMaxDim, config)

\* a sanitizer whose pattern pass attaches again the meshes the first pass
\* has detached
detectAndFixGlitches_Reattaches(scene, attached, config) ==
    LET allMeshes == Traverse(scene, attached)
        mainBox == ModelBoxFrom(scene, allMeshes, 1)
        mainMaxDim == Max3(getSize(mainBox))
        mainCenter2 == getCenter2(mainBox)
        F(i) == Measure(scene[i], mainMaxDim, mainCenter2)
        VerySmall(i) == IsVerySmall(F(i), config)
        verySmallMeshes == SelectSeq(allMeshes, VerySmall)
        Candidate(i) == isTinyAndDistant(F(i), config)
        meshPositions == SelectSeq(allMeshes, Candidate)
        linePatternMeshes ==
            GrowClusters(scene, meshPositions, 1, {}, << >>, mainMaxDim, config)
        Distant(i) ==
            /\ i \notin Range(verySmallMeshes) \cup Range(linePatternMeshes)
            /\ IsDistant(F(i), config)
        distantMeshes == SelectSeq(allMeshes, Distant)
    IN  [verySmallMeshes |-> Range(verySmallMeshes),
         meshPositions |-> meshPositions,
         linePatternMeshes |-> Range(linePatternMeshes),
         distantMeshes |-> Range(distantMeshes),
         attached |-> ((attached \ (Range(verySmallMeshes)
                                       \cup Range(linePatternMeshes)))
                          \cup (Range(verySmallMeshes)
                                   \cap Range(linePatternMeshes)))
                         \ Range(distantMeshes)]

\* detectAndFixGlitches(model, config) on a model whose attached meshes are
\* `attached`: the three lists it builds and the meshes attached afterwards
detectAndFixGlitches(scene, attached, config) ==
    LET allMeshes == Traverse(scene, attached)
        mainBox == ModelBoxFrom(scene, allMeshes, 1)
        mainMaxDim == Max3(getSize(mainBox))
        mainCenter2 == getCenter2(mainBox)
        F(i) == Measure(scene[i], mainMaxDim, mainCenter2)
        VerySmall(i) == IsVerySmall(F(i), config)
        verySmallMeshes == SelectSeq(allMeshes, VerySmall)
        Candidate(i) == isTinyAndDistant(F(i), config)
        meshPositions == SelectSeq(allMeshes, Candidate)
        linePatternMeshes ==
            GrowClusters(scene, meshPositions, 1, {}, << >>, mainMaxDim, config)
        Distant(i) ==
            /\ i \notin Range(verySmallMeshes) \cup Range(linePatternMeshes)
            /\ IsDistant(F(i), config)
        distantMeshes == SelectSeq(allMeshes, Distant)
    IN  [verySmallMeshes |-> Range(verySmallMeshes),
         meshPositions |-> meshPositions,
         linePatternMeshes |-> Range(linePatternMeshes),
         distantMeshes |-> Range(distantMeshes),
         attached |-> ((attached \ Range(verySmallMeshes))
                          \ Range(linePatternMeshes)) \ Range(distantMeshes)]

RECURSIVE Gcd(_, _)
Gcd(a, b) == IF b = 0 THEN a ELSE Gcd(b, a % b)

RECURSIVE SumSeq(_, _)
SumSeq(seq, i) == IF i > Len(seq) THEN 0 ELSE seq[i] + SumSeq(seq, i + 1)

RECURSIVE SumVec(_, _)
SumVec(seq, i) ==
    IF i > Len(seq) THEN Vec(0, 0, 0) ELSE Add(seq[i], SumVec(seq, i + 1))

RECURSIVE GcdSeq(_, _)
GcdSeq(seq, i) ==
    IF i > Len(seq) THEN 0 ELSE Gcd(Abs(seq[i]), GcdSeq(seq, i + 1))

\* an outlier test with one standard deviation
OutlierTest_OneDeviation(dist) ==
    LET n == Len(dist)
        total == SumSeq(dist, 1)
        dev == [i \in 1..n |-> n * dist[i] - total]
        g == GcdSeq(dev, 1)
        e == [i \in 1..n |-> IF g = 0 THEN 0 ELSE dev[i] \div g]
        squares == SumSeq([i \in 1..n |-> e[i] * e[i]], 1)
    IN  [i \in 1..n |-> e[i] > 0 /\ n * e[i] * e[i] > squares]

\* meshDistances[i] > avgDistance + 2 * stdDev, in exact arithmetic. With n
\* meshes, dist[i] is 2n times meshDistances[i] and dev[i] is 2n^2 times
\* meshDistances[i] - avgDistance; the comparison
\*    dev[i] > 2 * sqrt(sum of dev[j]^2 / n)
\* is taken on the squares, after the common factor of the dev[j] has been
\* divided out.
OutlierTest(dist) ==
    LET n == Len(dist)
        total == SumSeq(dist, 1)
        dev == [i \in 1..n |-> n * dist[i] - total]
        g == GcdSeq(dev, 1)
        e == [i \in 1..n |-> IF g = 0 THEN 0 ELSE dev[i] \div g]
        squares == SumSeq([i \in 1..n |-> e[i] * e[i]], 1)
    IN  [i \in 1..n |-> e[i] > 0 /\ n * e[i] * e[i] > 4 * squares]

\* a cleanup that sets the shadow flags of the meshes it removes
cleanupMeshes_ShadowsOfRemoved(scene, allMeshes) ==
    LET n == Len(allMeshes)
        meshCenters == [i \in 1..n |-> getCenter2(MeshBox(scene[allMeshes[i]]))]
        centroid == SumVec(meshCenters, 1)
        meshDistances ==
            [i \in 1..n |-> Length(Sub(Times(meshCenters[i], n), centroid))]
        isDistant == OutlierTest(meshDistances)
    IN  [meshesToRemove |-> {allMeshes[i] : i \in {j \in 1..n : isDistant[j]}},
         shadows |-> {allMeshes[i] : i \in {j \in 1..n : isDistant[j]}}]

\* cleanupMeshes(model, allMeshes, modelScale), allMeshes being the meshes
\* analyzeMeshes found: the meshes it removes and those it flags for shadows
cleanupMeshes(scene, allMeshes) ==
    LET n == Len(allMeshes)
        meshCenters == [i \in 1..n |-> getCenter2(MeshBox(scene[allMeshes[i]]))]
        \* n times the centroid
        centroid == SumVec(meshCenters, 1)
        meshDistances ==
            [i \in 1..n |-> Length(Sub(Times(meshCenters[i], n), centroid))]
        isDistant == OutlierTest(meshDistances)
    IN  [meshesToRemove |-> {allMeshes[i] : i \in {j \in 1..n : isDistant[j]}},
         shadows |-> {allMeshes[i] : i \in {j \in 1..n : ~isDistant[j]}}]

\* no scene is being loaded
MeshIdle ==
    /\ m_extras = {}
    /\ m_reversed = FALSE
    /\ m_scale = 1
    /\ m_config = "none"
    /\ m_stage = "none"
    /\ m_attached = {}
    /\ m_shadows = {}
    /\ m_removed = {}
    /\ m_verySmall = {}
    /\ m_pattern = {}
    /\ m_distant = {}

Init ==
    /\ variant \in {"cinematic", "dolly"}
    /\ events = 0
    /\ MeshIdle
    /\ CineInit
    /\ DollyInit
    /\ IF variant = "cinematic"
       THEN /\ c_maxDim \in ModelMaxDims
            /\ c_timer \in BOOLEAN
            /\ d_hasInitial = FALSE
            /\ d_timer = FALSE
       ELSE /\ c_maxDim = 0
            /\ c_timer = FALSE
            /\ d_hasInitial \in BOOLEAN
            /\ d_timer \in BOOLEAN

Next == CineNext \/ DollyNext

Spec == Init /\ [][Next]_vars

(* -------------------- the load callback: the actions ------------------- *)

TheScene == Scene(m_extras, m_reversed, m_scale)

\* analyzeMeshes(model) and cleanupMeshes(model, allMeshes, modelScale)
MeshCleanup ==
    /\ m_stage = "loaded"
    /\ LET r == cleanupMeshes(TheScene, Traverse(TheScene, m_attached))
       IN  /\ m_removed' = r.meshesToRemove
           /\ m_shadows' = m_shadows \cup r.shadows
           /\ m_attached' = m_attached \ r.meshesToRemove
    /\ m_stage' = "cleaned"
    /\ UNCHANGED <<variant, events, cvars, dvars, m_extras, m_reversed,
                   m_scale, m_config, m_verySmall, m_pattern, m_distant>>

\* detectAndFixGlitches(model, config)
MeshDetect ==
    /\ m_stage = "cleaned"
    /\ LET r == detectAndFixGlitches(TheScene, m_attached, m_config)
       IN  /\ m_verySmall' = r.verySmallMeshes
           /\ m_pattern' = r.linePatternMeshes
           /\ m_distant' = r.distantMeshes
           /\ m_attached' = r.attached
    /\ m_stage' = "fixed"
    /\ UNCHANGED <<variant, events, cvars, dvars, m_extras, m_reversed,
                   m_scale, m_config, m_shadows, m_removed>>

MeshNext == MeshCleanup \/ MeshDetect

\* a scene has been loaded: every mesh is attached, no shadow flag is set
MeshInit ==
    /\ variant = "cinematic"
    /\ events = 0
    /\ CineInit
    /\ DollyInit
    /\ c_maxDim = 0
    /\ c_timer = FALSE
    /\ d_hasInitial = FALSE
    /\ d_timer = FALSE
    /\ m_extras \in {S \in SUBSET (1..Len(Templates)) :
                        Cardinality(S) <= MaxExtras}
    /\ m_reversed \in BOOLEAN
    /\ m_scale \in Scales
    /\ m_config \in Configs
    /\ m_stage = "loaded"
    /\ m_attached = 1..(Len(BodyMeshes) + Cardinality(m_extras))
    /\ m_shadows = {}
    /\ m_removed = {}
    /\ m_verySmall = {}
    /\ m_pattern = {}
    /\ m_distant = {}

SpecMesh == MeshInit /\ [][MeshNext]_vars

(* -------------------- dolly: the poses as coordinates ------------------ *)

\* Math.sin at j 240ths of a revolution, j = 0..239, in thousandths (entry j + 1)
SinTurnTable ==
    <<0, 26, 52, 78, 105, 131, 156, 182, 208, 233, 259, 284,
      309, 334, 358, 383, 407, 431, 454, 477, 500, 522, 545, 566,
      588, 609, 629, 649, 669, 688, 707, 725, 743, 760, 777, 793,
      809, 824, 839, 853, 866, 879, 891, 903, 914, 924, 934, 943,
      951, 959, 966, 972, 978, 983, 988, 991, 995, 997, 999, 1000,
      1000, 1000, 999, 997, 995, 991, 988, 983, 978, 972, 966, 959,
      951, 943, 934, 924, 914, 903, 891, 879, 866, 853, 839, 824,
      809, 793, 777, 760, 743, 725, 707, 688, 669, 649, 629, 609,
      588, 566, 545, 522, 500, 477, 454, 431, 407, 383, 358, 334,
      309, 284, 259, 233, 208, 182, 156, 131, 105, 78, 52, 26,
      0, -26, -52, -78, -105, -131, -156, -182, -208, -233, -259, -284,
      -309, -334, -358, -383, -407, -431, -454, -477, -500, -522, -545, -566,
      -588, -609, -629, -649, -669, -688, -707, -725, -743, -760, -777, -793,
      -809, -824, -839, -853, -866, -879, -891, -903, -914, -924, -934, -943,
      -951, -959, -966, -972, -978, -983, -988, -991, -995, -997, -999, -1000,
      -1000, -1000, -999, -997, -995, -991, -988, -983, -978, -972, -966, -959,
      -951, -943, -934, -924, -914, -903, -891, -879, -866, -853, -839, -824,
      -809, -793, -777, -760, -743, -725, -707, -688, -669, -649, -629, -609,
      -588, -566, -545, -522, -500, -477, -454, -431, -407, -383, -358, -334,
      -309, -284, -259, -233, -208, -182, -156, -131, -105, -78, -52, -26>>

\* Math.sin at n tenths of a radian, n = 0..420, in thousandths (entry n + 1)
SinTenthTable ==
    <<0, 100, 199, 296, 389, 479, 565, 644, 717, 783, 841, 891,
      932, 964, 985, 997, 1000, 992, 974, 946, 909, 863, 808, 746,
      675, 598, 516, 427, 335, 239, 141, 42, -58, -158, -256, -351,
      -443, -530, -612, -688, -757, -818, -872, -916, -952, -978, -994, -1000,
      -996, -982, -959, -926, -883, -832, -773, -706, -631, -551, -465, -374,
      -279, -182, -83, 17, 117, 215, 312, 405, 494, 578, 657, 729,
      794, 850, 899, 938, 968, 988, 999, 999, 989, 970, 941, 902,
      855, 798, 734, 663, 585, 501, 412, 319, 223, 124, 25, -75,
      -174, -272, -366, -458, -544, -625, -700, -768, -828, -880, -923, -957,
      -981, -995, -1000, -995, -979, -954, -919, -875, -823, -762, -694, -618,
      -537, -450, -358, -263, -166, -66, 34, 133, 232, 327, 420, 509,
      592, 670, 740, 804, 859, 906, 944, 972, 991, 999, 998, 987,
      966, 935, 895, 846, 788, 723, 650, 571, 486, 397, 303, 206,
      108, 8, -92, -191, -288, -382, -472, -558, -638, -712, -778, -837,
      -888, -929, -961, -984, -997, -1000, -993, -976, -949, -913, -867, -813,
      -751, -681, -605, -522, -435, -342, -247, -149, -50, 50, 150, 248,
      343, 435, 523, 606, 682, 752, 814, 868, 913, 949, 976, 993,
      1000, 997, 984, 961, 929, 887, 837, 778, 711, 637, 557, 472,
      381, 287, 190, 91, -9, -109, -207, -304, -398, -487, -572, -651,
      -723, -789, -846, -895, -935, -966, -987, -998, -999, -990, -972, -943,
      -906, -859, -803, -740, -669, -591, -508, -419, -327, -231, -132, -33,
      67, 166, 264, 359, 450, 537, 619, 694, 763, 823, 876, 920,
      954, 979, 995, 1000, 995, 981, 956, 922, 879, 827, 767, 699,
      624, 543, 457, 366, 271, 173, 74, -26, -125, -224, -320, -413,
      -502, -586, -664, -735, -799, -855, -903, -941, -970, -989, -999, -998,
      -988, -968, -938, -898, -850, -793, -728, -656, -578, -493, -404, -311,
      -214, -116, -16, 84, 183, 280, 375, 465, 551, 632, 706, 773,
      833, 884, 926, 959, 983, 996, 1000, 994, 977, 951, 916, 871,
      818, 756, 687, 611, 529, 442, 350, 255, 157, 57, -42, -142,
      -240, -336, -428, -516, -599, -676, -746, -809, -864, -910, -947, -974,
      -992, -1000, -997, -985, -963, -932, -891, -841, -783, -717, -644, -564,
      -479, -389, -295, -198, -99, 1, 101, 200, 296, 390, 480, 565,
      645, 718, 784, 842, 892, 932, 964, 986, 998, 1000, 992, 974,
      946, 909, 863, 808, 745, 675, 598, 515, 427, 334, 238, 140,
      41, -59, -159, -256, -352, -443, -531, -613, -688, -757, -819, -872,
      -917>>

\* Math.cos at n tenths of a radian, n = 0..420, in thousandths (entry n + 1)
CosTenthTable ==
    <<1000, 995, 980, 955, 921, 878, 825, 765, 697, 622, 540, 454,
      362, 267, 170, 71, -29, -129, -227, -323, -416, -505, -589, -666,
      -737, -801, -857, -904, -942, -971, -990, -999, -998, -987, -967, -936,
      -897, -848, -791, -726, -654, -575, -490, -401, -307, -211, -112, -12,
      87, 187, 284, 378, 469, 554, 635, 709, 776, 835, 886, 927,
      960, 983, 997, 1000, 993, 977, 950, 914, 869, 816, 754, 685,
      608, 526, 439, 347, 251, 153, 54, -46, -146, -244, -339, -431,
      -519, -602, -679, -749, -811, -865, -911, -948, -975, -992, -1000, -997,
      -985, -962, -930, -889, -839, -781, -714, -641, -561, -476, -385, -291,
      -194, -95, 4, 104, 203, 300, 393, 483, 568, 648, 720, 786,
      844, 893, 934, 965, 986, 998, 999, 991, 973, 945, 907, 861,
      806, 743, 672, 595, 512, 423, 331, 235, 137, 37, -63, -162,
      -260, -355, -446, -534, -615, -691, -760, -821, -874, -918, -953, -978,
      -994, -1000, -996, -982, -958, -924, -881, -830, -770, -702, -628, -547,
      -461, -370, -275, -178, -79, 21, 121, 219, 316, 409, 498, 582,
      660, 732, 796, 853, 901, 940, 969, 989, 999, 999, 989, 969,
      939, 900, 852, 796, 731, 660, 581, 497, 408, 315, 219, 120,
      20, -80, -179, -276, -371, -461, -548, -629, -703, -771, -830, -882,
      -924, -958, -982, -996, -1000, -994, -978, -953, -918, -873, -820, -759,
      -690, -615, -533, -446, -354, -259, -161, -62, 38, 138, 236, 332,
      424, 512, 596, 673, 743, 806, 861, 908, 945, 973, 991, 999,
      998, 986, 964, 933, 893, 843, 786, 720, 647, 568, 483, 393,
      299, 202, 103, 4, -96, -195, -292, -386, -476, -562, -642, -715,
      -781, -840, -890, -931, -963, -985, -997, -1000, -992, -975, -947, -911,
      -865, -811, -748, -678, -601, -519, -431, -338, -243, -145, -45, 55,
      154, 252, 347, 439, 527, 609, 685, 754, 816, 870, 915, 951,
      977, 993, 1000, 996, 983, 960, 927, 885, 834, 775, 708, 634,
      554, 468, 377, 283, 186, 87, -13, -113, -212, -308, -402, -491,
      -576, -654, -727, -792, -849, -897, -937, -967, -988, -998, -999, -990,
      -971, -942, -904, -856, -801, -737, -666, -588, -504, -415, -322, -226,
      -128, -28, 72, 171, 268, 363, 454, 541, 622, 697, 765, 826,
      878, 921, 956, 980, 995, 1000, 995, 980, 955, 921, 877, 825,
      764, 696, 621, 540, 453, 362, 267, 169, 70, -30, -130, -228,
      -324, -417, -506, -589, -667, -738, -802, -857, -904, -943, -971, -990,
      -999, -998, -987, -967, -936, -896, -848, -790, -725, -653, -574, -489,
      -400>>

SinTurn(j) == SinTurnTable[(j % 240) + 1]

CosTurn(j) == SinTurn(j + 60)

SinTenth(n) == SinTenthTable[n + 1]

CosTenth(n) == CosTenthTable[n + 1]

\* baseHeight and the floorY the main module passes, in thousandths
BaseHeight == 2500

FloorY == 0

\* this.orbitRadius = Math.max(modelSize.x, modelSize.z) * 0.8, in
\* thousandths, for a model whose larger horizontal side is maxDimension
OrbitRadius(maxDimension) == maxDimension * 800

\* setCameraPosition: angle in 120ths of a revolution, the variations and
\* the result in thousandths
setCameraPosition(angle, radiusVariation, heightVariation, maxDimension) ==
    LET radius == OrbitRadius(maxDimension) + radiusVariation
    IN  Vec(ModelCenter[1] + (CosTurn(2 * angle) * radius) \div 1000,
            FloorY + BaseHeight + heightVariation,
            ModelCenter[3] + (SinTurn(2 * angle) * radius) \div 1000)

\* setCameraLookTarget: time in seconds
setCameraLookTarget(angle, time) ==
    LET baseLookHeight == (ModelCenter[2] * 400) \div 1000
        lookUpCycle == (SinTenth(3 * time) * 500) \div 1000 + 500
        lookUpAmount == (((lookUpCycle * ModelCenter[2]) \div 1000) * 600)
                           \div 1000
        lookOffsetX == SinTenth(7 * time) * 2 + SinTurn(4 * angle)
        lookOffsetZ == CosTenth(5 * time) * 2 + CosTurn(3 * angle)
        lookAheadFactor == (SinTenth(4 * time) * 300) \div 1000 + 700
    IN  Vec(ModelCenter[1] + (lookOffsetX * lookAheadFactor) \div 1000,
            baseLookHeight + lookUpAmount,
            ModelCenter[3] + (lookOffsetZ * lookAheadFactor) \div 1000)

\* the onUpdate of the orbit tween: the position it sets
OrbitUpdate(angle, time, maxDimension) ==
    LET radiusVariation == SinTurn(6 * angle) * 3 + CosTurn(4 * angle) * 2
        heightVariation == (SinTurn(8 * angle) * 800) \div 1000
                              + (CosTenth(2 * time) * 500) \div 1000
        bobOffset == (SinTurn(12 * angle) * 150) \div 1000
    IN  setCameraPosition(angle, radiusVariation,
                          heightVariation + bobOffset, maxDimension)

DollyInitialPosition == Vec(-103394, 32723, 50231)

DollyInitialTarget == Vec(-12164, 17130, 1387)

\* the coordinates of a camera position
RECURSIVE PosValue(_, _)
PosValue(p, maxDimension) ==
    CASE p.k = "initial" -> DollyInitialPosition
      [] p.k = "circle" -> setCameraPosition(p.angle, 0, 0, maxDimension)
      [] p.k = "orbit" -> OrbitUpdate(p.angle, p.time, maxDimension)
      [] p.k = "tween" -> LerpVec(PosValue(p.from, maxDimension),
                                  PosValue(p.to, maxDimension), p.e)

\* the coordinates of a look target
RECURSIVE TargetValue(_)
TargetValue(p) ==
    CASE p.k = "initial" -> DollyInitialTarget
      [] p.k = "animalTarget" ->
            Vec(ModelCenter[1], (ModelCenter[2] * 400) \div 1000, ModelCenter[3])
      [] p.k = "look" -> setCameraLookTarget(p.angle, p.time)
      [] p.k = "tween" -> LerpVec(TargetValue(p.from), TargetValue(p.to), p.e)

(* ============================== claims =============================== *)

\* some timeline is alive and not paused
AnyRunning(live, paused) == live \ paused # {}

\* the step dispatches interaction event e to the cinematic orchestrator
CineEvent(e) == IF e = "start" THEN CineControlsStart ELSE CineWindowEvent(e)

\* C1: cinematic: with the sequence playing and no interaction handled so
\* far, the first interaction event (wheel, mousedown, touchstart or the
\* controls' 'start') leaves playing = false and controls.enabled = true; an
\* interaction event after that, as long as restart() has not cleared the
\* flag, changes nothing of the orchestrator, its timelines, the controls or
\* the camera.
C1_FirstInteractionPausesOnce ==
    [][\A e \in InteractionEvents :
          CineEvent(e) =>
             /\ (c_isPlaying /\ ~c_userInteracted /\ c_listeners = WindowEvents)
                   => (~c_isPlaying' /\ c_enabled' /\ c_userInteracted'
                       /\ c_timeline' \in c_paused')
             /\ c_userInteracted => UNCHANGED cfields]_vars

\* an interaction paused the sequence, play() took the camera again, and two
\* of the window events have been dispatched
C1_Witness ==
    /\ variant = "cinematic"
    /\ c_userInteracted
    /\ c_isPlaying
    /\ c_lastCall = "play"
    /\ Cardinality(c_listeners) = 1

\* C2: cinematic: after restart() has cleared the sticky flag, the next
\* wheel, mousedown or touchstart received while the sequence plays pauses
\* it, whatever happened before the restart.
C2_RestartRearmsInteraction ==
    [][\A e \in WindowEvents :
          (CineWindowEvent(e) /\ c_lastCall = "restart"
              /\ c_isPlaying /\ ~c_userInteracted)
             => (~c_isPlaying' /\ c_enabled' /\ c_userInteracted')]_vars

\* C3: dolly: an interaction event while isPlaying() is true leads to
\* isPlaying() = false and controls.enabled = true.
C3_DollyInteractionPauses ==
    [][\A e \in InteractionEvents :
          (DollyInteraction(e) /\ isPlaying(DollyState))
             => (~isPlaying(DollyState)' /\ d_enabled')]_vars

\* C4: cinematic: from the automatic pause until restart() the controls stay
\* enabled and no timeline drives the camera, whatever calls play().
C4_InteractionIsFinal ==
    c_userInteracted => (c_enabled /\ ~c_isPlaying
                         /\ ~AnyRunning(c_live, c_paused))

\* C5: in every reachable state of either variant controls.enabled is false
\* exactly when a timeline of the choreographer is alive and not paused.
C5_ExclusiveOwnership ==
    /\ variant = "cinematic" => (c_enabled <=> ~AnyRunning(c_live, c_paused))
    /\ variant = "dolly" => (d_enabled <=> ~AnyRunning(d_live, d_paused))

\* the dolly was paused in mid-orbit: the controls own the camera
C5_Witness ==
    /\ variant = "dolly"
    /\ d_lastCall = "pause"
    /\ d_timeline \in d_paused
    /\ d_time > TransitionDuration
    /\ d_enabled

\* C6: play() while playing and start() while active change nothing, and at
\* most one timeline that is not paused is alive at any time.
C6_StartIsIdempotent ==
    /\ [](Cardinality(c_live \ c_paused) <= 1 /\ Cardinality(d_live \ d_paused) <= 1)
    /\ [][/\ (CinePlay /\ c_isPlaying) => UNCHANGED cfields
          /\ (DollyStart /\ d_isActive) => UNCHANGED dfields]_vars

\* start() returned last and the timeline is paused: that start() found the
\* camera active
C6_Witness ==
    /\ variant = "dolly"
    /\ d_lastCall = "start"
    /\ d_timeline \in d_paused
    /\ d_time > 0

\* C7: dolly: pause() and resume() keep the playhead, the orbit parameters
\* and the timeline; pause() enables the controls and resume() disables
\* them; both change nothing when the camera is not active; and a timeline
\* does not advance while it stays paused, so resume() continues where
\* pause() stopped.
C7_PauseResumeKeepPosition ==
    [][/\ (DollyPause \/ DollyResume) =>
             /\ UNCHANGED <<d_time, d_orbit, d_timeline, d_live, d_from,
                            d_camPos, d_camTarget, d_isActive>>
             /\ ~d_isActive => UNCHANGED dfields
       /\ (DollyPause /\ d_isActive) => (d_enabled' /\ ~isPlaying(DollyState)')
       /\ (DollyResume /\ d_isActive) => (~d_enabled' /\ isPlaying(DollyState)')
       /\ (d_timeline \in d_paused /\ d_timeline' \in d_paused')
             => UNCHANGED <<d_time, d_orbit, d_camPos, d_camTarget>>]_vars

\* resume() returned last, in mid-orbit, and the timeline runs
C7_Witness ==
    /\ variant = "dolly"
    /\ d_lastCall = "resume"
    /\ d_time > TransitionDuration
    /\ d_orbit.angle > 0
    /\ isPlaying(DollyState)
    /\ ~d_enabled

\* C8: restart() and reset(), in any state, leave the choreography playing
\* from time 0 with the controls disabled and exactly one timeline alive.
C8_RestartLeavesOneTimeline ==
    [][/\ CineRestart =>
             (c_isPlaying' /\ c_time' = 0 /\ ~c_enabled'
              /\ c_live' = {c_timeline'} /\ c_paused' = {})
       /\ DollyReset =>
             (isPlaying(DollyState)' /\ d_time' = 0 /\ ~d_enabled'
              /\ d_live' = {d_timeline'} /\ d_paused' = {})]_vars

\* C9: after pause() or stop() has returned no timeline runs, and until
\* another method is called no step writes camera.position or
\* controls.target.
C9_CancellationIsSynchronous ==
    /\ [](/\ c_lastCall \in {"pause", "stop"} => ~AnyRunning(c_live, c_paused)
          /\ d_lastCall \in {"pause", "stop"} => ~AnyRunning(d_live, d_paused))
    /\ [][/\ (c_lastCall \in {"pause", "stop"} /\ c_lastCall' = c_lastCall)
             => UNCHANGED <<c_camPos, c_camTarget, c_time>>
          /\ (d_lastCall \in {"pause", "stop"} /\ d_lastCall' = d_lastCall)
             => UNCHANGED <<d_camPos, d_camTarget, d_time>>]_vars

\* the cinematic sequence was paused in the middle of a shot
C9_Witness ==
    /\ variant = "cinematic"
    /\ c_lastCall = "pause"
    /\ c_timeline \in c_paused
    /\ c_time = 7

\* the sum of the durations of the first n shots
RECURSIVE SumDurations(_, _)
SumDurations(shots, n) ==
    IF n = 0 THEN 0 ELSE SumDurations(shots, n - 1) + shots[n].duration

\* the children of the given kind the timeline holds for shot i
ChildrenOf(children, kind, i) ==
    {j \in 1..Len(children) : children[j].kind = kind /\ children[j].shot = i}

\* the time at which shot i + 1 is due, for every i in 0..NumShots
DueTimes ==
    [m \in ModelMaxDims |->
        [n \in 0..NumShots |-> SumDurations(TimelineOf[m].shots, n)]]

\* the shot that plays at time t > 0: shot i plays from its due time up to
\* the due time of the next shot, the last one also at the end of the timeline
ShotAt(due, t) ==
    IF t >= due[NumShots] THEN NumShots
    ELSE CHOOSE i \in 1..NumShots : due[i - 1] <= t /\ t < due[i]

\* the jump cut and the two tweens of every shot are due when the shots
\* before it have played, and the tweens last the shot's duration
ScheduleAbuts ==
    [m \in ModelMaxDims |->
        LET ch == TimelineOf[m].children IN
        \A i \in 1..NumShots :
           \A k \in {"jump", "pos", "target"} :
              /\ Cardinality(ChildrenOf(ch, k, i)) = 1
              /\ \A j \in ChildrenOf(ch, k, i) :
                    /\ ch[j].start = DueTimes[m][i - 1]
                    /\ k # "jump" => ch[j].start + ch[j].dur = DueTimes[m][i]]

SamePoint(u, v) == \A i \in 1..3 : Abs(u[i] - v[i]) <= 5

\* C12: dolly: when the orbit tween has rendered the end of a revolution
\* (angle 2 pi, time 60), the camera position and the look target are those
\* the start of the next revolution (angle 0, time 0) produces, for a model
\* of any size.
C12_OrbitIsPeriodic ==
    (/\ variant = "dolly"
     /\ d_timeline # NoTimeline
     /\ d_orbit = [angle |-> FullTurn, time |-> OrbitDuration]
     /\ d_camPos = OrbitPos(FullTurn, OrbitDuration))
       => /\ \A m \in ModelMaxDims :
                SamePoint(PosValue(d_camPos, m), PosValue(OrbitPos(0, 0), m))
          /\ SamePoint(TargetValue(d_camTarget), TargetValue(LookTarget(0, 0)))

\* C13: dolly started with an initial pose: before the transition has ended
\* the orbit tween has written nothing and the camera is on the transition's
\* tweens, and when the playhead is at the end
\* of the transition, where the orbit tween writes its first pose, that pose
\* is the pose the transition ends in.
C13_TransitionMeetsOrbit ==
    (variant = "dolly" /\ d_hasInitial /\ d_timeline # NoTimeline) =>
       /\ d_time < TransitionDuration => d_orbit = NewPositionObj
       /\ (0 < d_time /\ d_time < TransitionDuration) =>
             (d_camPos.k = "tween" /\ d_camTarget.k = "tween")
       /\ (d_time = TransitionDuration /\ d_camPos = OrbitPos(0, 0)) =>
             /\ \A m \in ModelMaxDims :
                   SamePoint(PosValue(d_camPos, m),
                             PosValue(CirclePos(InitialAngle), m))
             /\ SamePoint(TargetValue(d_camTarget), TargetValue(AnimalTarget))

\* C14: a model of size 0 on every axis: the dolly's base orbit radius is
\* greater than 0, and the cinematic shots keep the camera at a distance
\* greater than 0 from its target.
C14_ZeroSizeModelKeepsDistance ==
    /\ (variant = "dolly" /\ d_isActive) => OrbitRadius(0) > 0
    /\ (variant = "cinematic" /\ c_maxDim = 0 /\ c_timeline # NoTimeline) =>
          /\ \A i \in 1..NumShots :
                LET shot == TimelineOf[c_maxDim].shots[i]
                IN  /\ shot.startPosition # shot.startTarget
                    /\ shot.endPosition # shot.endTarget
          /\ c_time > 0 => c_camPos # c_camTarget

(* ---------------------- claims on the mesh sanitizer ------------------- *)

\* the meshes that were attached when detectAndFixGlitches was called
AttachedBefore == (1..Len(TheScene)) \ m_removed

\* what detectAndFixGlitches measured of mesh i against the whole model
Measured(i) ==
    LET mainBox == ModelBoxFrom(TheScene, Traverse(TheScene, AttachedBefore), 1)
    IN  Measure(TheScene[i], Max3(getSize(mainBox)), getCenter2(mainBox))

\* C15: after detectAndFixGlitches, a mesh whose geometry has no position
\* attribute is in none of the lists of meshes to remove and is attached as
\* it was before the call.
C15_NoPositionMeshIsSkipped ==
    m_stage = "fixed" =>
       \A i \in AttachedBefore :
          TheScene[i].position = NoAttribute =>
             /\ i \notin m_verySmall \cup m_pattern \cup m_distant
             /\ i \in m_attached

\* C16: the first pass of detectAndFixGlitches lists a mesh exactly when the
\* tiny rule, the far-and-tiny rule or the low-poly-and-tiny rule holds of
\* it, and no listed mesh is attached afterwards.
C16_FirstPassFlagsByThreeRules ==
    m_stage = "fixed" =>
       /\ \A i \in AttachedBefore :
             i \in m_verySmall <=>
                \/ isExtremelyTiny(Measured(i), m_config)
                \/ isFarAndTiny(Measured(i), m_config)
                \/ isExtremeLowPoly(Measured(i), m_config)
       /\ m_verySmall \subseteq AttachedBefore
       /\ m_verySmall \cap m_attached = {}

\* the far-and-tiny rule alone has listed one mesh and the low-poly-and-tiny
\* rule alone another, and a mesh none of the rules holds of is still attached
C16_Witness ==
    /\ m_stage = "fixed"
    /\ \E j, k \in m_verySmall :
          /\ isFarAndTiny(Measured(j), m_config)
          /\ ~isExtremelyTiny(Measured(j), m_config)
          /\ ~isExtremeLowPoly(Measured(j), m_config)
          /\ isExtremeLowPoly(Measured(k), m_config)
          /\ ~isExtremelyTiny(Measured(k), m_config)
          /\ ~isFarAndTiny(Measured(k), m_config)
    /\ \E i \in m_attached : ~IsVerySmall(Measured(i), m_config)

\* relative size and volume of a mesh are both at or above the thresholds of
\* the tiny rule and below twice those thresholds
JustAboveTiny(f, config) ==
    /\ f.mainMaxDim > 0
    /\ ~RatioBelow(f.maxSize, f.mainMaxDim, config.tinySizeThreshold)
    /\ RatioBelow(f.maxSize, 2 * f.mainMaxDim, config.tinySizeThreshold)
    /\ ~Below(f.volume, config.tinyVolumeThreshold)
    /\ f.volume * config.tinyVolumeThreshold[2]
          < 2 * config.tinyVolumeThreshold[1]

\* C17 as stated: after detectAndFixGlitches every mesh with relative size
\* below tinySizeThreshold and volume below tinyVolumeThreshold is detached,
\* and every mesh with relative size and volume both just above those
\* thresholds is still attached.
C17_TinyBoundary ==
    m_stage = "fixed" =>
       \A i \in AttachedBefore :
          /\ isExtremelyTiny(Measured(i), m_config) => i \notin m_attached
          /\ JustAboveTiny(Measured(i), m_config) => i \in m_attached

\* C17, amended: after detectAndFixGlitches every mesh with relative size
\* below tinySizeThreshold and volume below tinyVolumeThreshold is detached,
\* and a mesh with relative size or volume at or above its threshold is
\* detached only when another rule selects it: far-and-tiny, low-poly-and-
\* tiny, the pattern rule or the distant rule.
C17_TinyBoundaryOfTinyRule ==
    m_stage = "fixed" =>
       \A i \in AttachedBefore :
          /\ (/\ RatioBelow(Measured(i).maxSize, Measured(i).mainMaxDim,
                            m_config.tinySizeThreshold)
              /\ Below(Measured(i).volume, m_config.tinyVolumeThreshold))
                => i \notin m_attached
          /\ (/\ i \notin m_attached
              /\ \/ ~RatioBelow(Measured(i).maxSize, Measured(i).mainMaxDim,
                                m_config.tinySizeThreshold)
                 \/ ~Below(Measured(i).volume, m_config.tinyVolumeThreshold))
                => \/ isFarAndTiny(Measured(i), m_config)
                   \/ isExtremeLowPoly(Measured(i), m_config)
                   \/ i \in m_pattern \cup m_distant

\* a mesh below both thresholds has been detached, a mesh just above both is
\* still attached, and another mesh just above both has been detached
C17_Witness ==
    /\ m_stage = "fixed"
    /\ \E i, j, k \in AttachedBefore :
          /\ isExtremelyTiny(Measured(i), m_config)
          /\ i \notin m_attached
          /\ JustAboveTiny(Measured(j), m_config)
          /\ j \in m_attached
          /\ JustAboveTiny(Measured(k), m_config)
          /\ k \notin m_attached

\* 2n times the distance of each mesh of `meshes` from the centroid of the
\* centers of `meshes`
CentroidDistances(meshes) ==
    LET n == Len(meshes)
        c == [i \in 1..n |-> getCenter2(MeshBox(TheScene[meshes[i]]))]
    IN  [i \in 1..n |-> Length(Sub(Times(c[i], n), SumVec(c, 1)))]

\* dist[i] > mean + 2 * (population standard deviation) of dist: with the
\* distances divided by their common factor, x = n * (d[i] - mean) and
\* sq = n^3 * variance, that is x > 0 and n * x^2 > 4 * sq
IsOutlier(dist, i) ==
    LET n == Len(dist)
        g == GcdSeq(dist, 1)
        d == [j \in 1..n |-> IF g = 0 THEN 0 ELSE dist[j] \div g]
        x == n * d[i] - SumSeq(d, 1)
        sq == SumSeq([j \in 1..n |->
                         (n * d[j] - SumSeq(d, 1)) * (n * d[j] - SumSeq(d, 1))], 1)
    IN  x > 0 /\ n * x * x > 4 * sq

CloseTogether(i, j) ==
    LET ci == getCenter2(MeshBox(TheScene[i]))
        cj == getCenter2(MeshBox(TheScene[j]))
        t == m_config.patternDistanceThreshold
    IN  Length(Sub(ci, cj)) * t[2] < 2 * Measured(i).mainMaxDim * t[1]

\* the small, far meshes of the pattern pass
SmallAndFar == {i \in AttachedBefore : isTinyAndDistant(Measured(i), m_config)}

\* a set of small, far meshes every two of which are close together, with
\* no other small, far mesh close to one of them
IsGroup(S) ==
    /\ S # {}
    /\ \A i, j \in S : i # j => CloseTogether(i, j)
    /\ \A i \in S : \A j \in SmallAndFar \ S : ~CloseTogether(i, j)

C20_ScaleInvariant ==
    m_stage = "fixed" =>
       LET unscaled == Scene(m_extras, m_reversed, 1)
           all == [i \in 1..Len(unscaled) |-> i]
           cleaned == (1..Len(unscaled))
                         \ cleanupMeshes(unscaled, all).meshesToRemove
       IN  /\ cleaned = AttachedBefore
           /\ detectAndFixGlitches(unscaled, cleaned, m_config).attached
                 = m_attached

RECURSIVE Linked(_)
Linked(S) ==
    LET next == S \cup {j \in SmallAndFar : \E i \in S : CloseTogether(i, j)}
    IN  IF next = S THEN S ELSE Linked(next)

\* C22: the clusters of the pattern pass are the connected components of the
\* graph that links two small, far meshes whose centers are closer than
\* patternDistanceThreshold * mainMaxDim: after detectAndFixGlitches a
\* component of at least minPatternSize meshes is in linePatternMeshes as a
\* whole, and no mesh of a smaller component is.
C22_ClustersAreComponents ==
    m_stage = "fixed" =>
       \A i \in SmallAndFar :
          IF Cardinality(Linked({i})) >= m_config.minPatternSize
          THEN Linked({i}) \subseteq m_pattern
          ELSE i \notin m_pattern

\* the candidates the pattern pass of detectAndFixGlitches collected
PatternCandidates ==
    Range(detectAndFixGlitches(TheScene, AttachedBefore, m_config).meshPositions)

\* C23: a mesh is a candidate of the pattern pass, and so can be in
\* linePatternMeshes, only if it passes the gate of the far-and-tiny rule:
\* distance from the model center > mainMaxDim * farDistanceThreshold,
\* relative size < smallSizeThreshold and volume < smallVolumeThreshold.
C23_CandidatesPassFarGate ==
    m_stage = "fixed" =>
       \A i \in PatternCandidates \cup m_pattern :
          isFarAndTiny(Measured(i), m_config)

\* the clusters of the pattern pass taken over the candidates that the first
\* pass has left attached
PatternOfAttached ==
    LET StillAttached(i) == i \notin m_verySmall
        mainBox == ModelBoxFrom(TheScene, Traverse(TheScene, AttachedBefore), 1)
    IN  Range(GrowClusters(TheScene,
                           SelectSeq(detectAndFixGlitches(TheScene,
                                        AttachedBefore, m_config).meshPositions,
                                     StillAttached),
                           1, {}, << >>, Max3(getSize(mainBox)), m_config))

\* C24: each stage of detectAndFixGlitches works on the meshes attached when
\* it starts: a mesh the first pass detached is not in linePatternMeshes,
\* linePatternMeshes holds the clusters of the still attached candidates (a
\* detached mesh neither counts in a cluster nor brings about the removal of
\* an attached mesh), and the last pass lists no mesh of the earlier lists.
C24_StagesUseCurrentMeshSet ==
    m_stage = "fixed" =>
       /\ m_pattern \cap m_verySmall = {}
       /\ m_pattern = PatternOfAttached
       /\ m_distant \cap (m_verySmall \cup m_pattern) = {}

(* --------------------------- further claims ---------------------------- *)

\* C25: with an initial pose supplied, the motion that reset() starts begins
\* at the pose the motion of the first start() began at, the supplied initial
\* position and target: the camera is there when reset() returns, and the
\* transition tweens of the new timeline start from there.
C25_ResetStartsFromInitialPose ==
    (variant = "dolly" /\ d_hasInitial /\ d_lastCall = "reset" /\ d_isActive) =>
       /\ d_time = 0 => d_camPos = InitialPose /\ d_camTarget = InitialPose
       /\ d_from.pos # NotCaptured =>
             d_from = [pos |-> InitialPose, target |-> InitialPose]

\* C26: cinematic: whatever interaction events were dispatched before play()
\* ran, while the sequence plays and no interaction has paused it yet each
\* of wheel, mousedown and touchstart pauses it: playing becomes false, the
\* controls are enabled and the timeline is paused.
C26_EarlyEventsKeepInterruptible ==
    [][\A e \in WindowEvents :
          (CineWindowEvent(e) /\ c_isPlaying /\ ~c_userInteracted)
             => (~c_isPlaying' /\ c_enabled' /\ c_timeline' \in c_paused')]_vars

\* C27: cinematic: whatever methods have been called, a timeline that has
\* been created and not killed is the one this.timeline refers to.
C27_NoOrphanTimeline ==
    variant = "cinematic" =>
       c_live = IF c_timeline = NoTimeline THEN {} ELSE {c_timeline}

\* the orders in which the meshes of seq can be visited
Orders(seq) ==
    {p \in [1..Len(seq) -> Range(seq)] :
        \A i, j \in 1..Len(seq) : p[i] = p[j] => i = j}

\* C28: the meshes the pattern pass removes do not depend on the order in
\* which the meshes are visited: clustering the candidates in any order
\* gives the linePatternMeshes that detectAndFixGlitches has removed.
C28_PatternOrderIndependent ==
    m_stage = "fixed" =>
       LET mainBox == ModelBoxFrom(TheScene, Traverse(TheScene, AttachedBefore), 1)
           meshPositions ==
              detectAndFixGlitches(TheScene, AttachedBefore, m_config).meshPositions
       IN  \A p \in Orders(meshPositions) :
              Range(GrowClusters(TheScene, p, 1, {}, << >>,
                                 Max3(getSize(mainBox)), m_config)) = m_pattern

\* C29: detectAndFixGlitches called again with the same config on the model
\* its first call has left, the bounds and the center taken from the meshes
\* still attached, detaches no mesh.
C29_DetectIsIdempotent ==
    m_stage = "fixed" =>
       detectAndFixGlitches(TheScene, m_attached, m_config).attached = m_attached

\* C30: a step of the load callback attaches no mesh; cleanupMeshes and
\* each pass of detectAndFixGlitches select only meshes that were attached
\* when the function was called, and the meshes detached by a step are
\* those it selected: a mesh on two lists of detectAndFixGlitches is
\* detached like one on a single list.
C30_AttachedOnlyShrinks ==
    [][/\ m_attached' \subseteq m_attached
       /\ MeshCleanup =>
             /\ m_removed' \subseteq m_attached
             /\ m_attached' = m_attached \ m_removed'
       /\ MeshDetect =>
             /\ m_verySmall' \cup m_pattern' \cup m_distant' \subseteq m_attached
             /\ m_attached' =
                   m_attached \ (m_verySmall' \cup m_pattern' \cup m_distant')]_vars

\* the first pass and the pattern pass have selected the same mesh, and the
\* pattern pass others besides
C30_Witness ==
    /\ m_stage = "fixed"
    /\ m_verySmall \cap m_pattern # {}
    /\ m_pattern \ m_verySmall # {}

====
